---- MODULE Spec2Model ----
(***************************************************************************)
(* The inventory program of src/inventory/src/main.rs: a Collection that   *)
(* maps item names to Item records, and the command loop of main that      *)
(* drives it from lines read on standard input.                            *)
(***************************************************************************)
EXTENDS Naturals, Integers, Sequences, FiniteSets, TLC

VARIABLES
    _items,      \* Collection::_items, the HashMap as a set of (key, value) entries
    pc,          \* position of main: "read", "match", "exit" or "panic"
    take_input,  \* the String the current iteration read its line into
    stdout,      \* the lines the last step wrote to standard output
    calls,       \* the Collection methods the last step called, in order
    panic,       \* the message of the panic that aborted the process, or ""
    before,      \* history: _items as it was when the last step began
    listed,      \* history: the lines the step before the last printed, if it
                 \* called list_item, else the empty set
    scenario     \* history: how many calls of Scenario the calls made so far
                 \* have followed, or -1 once they left it

vars == <<_items, pc, take_input, stdout, calls, panic, before, listed, scenario>>

----------------------------------------------------------------------------
(* Bounds of the model. *)

\* Quantities passed by the callers of the Collection range over 0..MaxQty,
\* the two quantities main passes, and the largest u8.
MaxQty == 2
\* A line typed on standard input has at most MaxLen characters before its newline.
MaxLen == 3

(* The range of the u8 type of Item::_quantity and of the selection. *)
U8Max == 255

Names == {"Apple", "Banana", "Cherry"}
Quantities == {q \in 0..U8Max : q <= MaxQty \/ q \in {5, 8, U8Max}}

----------------------------------------------------------------------------
(* std::collections::HashMap<String, Item>, as the set of its entries. *)

Entry(k, v) == [key |-> k, value |-> v]

HashMap_new == {}

Keys(m) == {e.key : e \in m}

\* insert replaces the value of an equal key, or adds a new entry
insert(m, k, v) == {e \in m : e.key # k} \cup {Entry(k, v)}

\* get_mut yields the entries a write through the returned reference reaches
get_mut(m, k) == {e \in m : e.key = k}

is_empty(m) == m = {}

\* values() visits every entry once, in an order the hasher decides
RECURSIVE Orders(_)
Orders(m) ==
    IF m = {} THEN {<<>>}
    ELSE UNION {{<<e.value>> \o s : s \in Orders(m \ {e})} : e \in m}

values(m) == Orders(m)

----------------------------------------------------------------------------
(* Lines of standard output: the function that printed and what it printed. *)

Line(fn, text) == [by |-> fn, text |-> text]

Item(name, quantity) == [_name |-> name, _quantity |-> quantity]

Collection_new == HashMap_new

\* add_item, restocking: the quantity is added to the one already stored
add_item_accumulate(self, name, quantity) ==
    LET old == {e.value._quantity : e \in get_mut(self, name)}
        sum == IF old = {} THEN quantity
               ELSE ((CHOOSE o \in old : TRUE) + quantity) % (U8Max + 1)
    IN
    [_items |-> insert(self, name, Item(name, sum)),
     out    |-> <<Line("add_item", <<"added an item", name, quantity>>)>>]

\* add_item, with the Item built before the name is known
add_item_misnamed(self, name, quantity) ==
    LET item == Item("", quantity) IN
    [_items |-> insert(self, name, item),
     out    |-> <<Line("add_item", <<"added an item", name, quantity>>)>>]

\* add_item, keeping the record a name already has
add_item_keep_existing(self, name, quantity) ==
    LET item == Item(name, quantity) IN
    [_items |-> IF get_mut(self, name) # {} THEN self ELSE insert(self, name, item),
     out    |-> <<Line("add_item", <<"added an item", name, quantity>>)>>]

\* add_item, leaving the message to its caller
add_item_quiet(self, name, quantity) ==
    LET item == Item(name, quantity) IN
    [_items |-> insert(self, name, item),
     out    |-> <<>>]

\* add_item, inserting into a map made anew
add_item_clear(self, name, quantity) ==
    LET item == Item(name, quantity) IN
    [_items |-> insert(HashMap_new, name, item),
     out    |-> <<Line("add_item", <<"added an item", name, quantity>>)>>]

\* add_item: build the Item, insert it under its name, print the outcome
add_item(self, name, quantity) ==
    LET item == Item(name, quantity) IN
    [_items |-> insert(self, name, item),
     out    |-> <<Line("add_item", <<"added an item", name, quantity>>)>>]

\* update_item, inserting the record when the name is absent
update_item_upsert(self, name, quantity) ==
    [_items |-> insert(self, name, Item(name, quantity)),
     out    |-> <<Line("update_item", <<"Updated item", name, quantity>>)>>]

\* update_item, writing the quantity into every record once the name is found
update_item_all(self, name, quantity) ==
    IF get_mut(self, name) # {}
    THEN [_items |-> {Entry(e.key, [e.value EXCEPT !._quantity = quantity]) : e \in self},
          out    |-> <<Line("update_item", <<"Updated item", name, quantity>>)>>]
    ELSE [_items |-> self,
          out    |-> <<Line("update_item", <<"NO item in the collection">>)>>]

\* update_item, dropping the record when its quantity is set to zero
update_item_remove_zero(self, name, quantity) ==
    IF get_mut(self, name) # {}
    THEN [_items |-> IF quantity = 0
                     THEN self \ get_mut(self, name)
                     ELSE {IF e \in get_mut(self, name)
                           THEN Entry(e.key, [e.value EXCEPT !._quantity = quantity])
                           ELSE e : e \in self},
          out    |-> <<Line("update_item", <<"Updated item", name, quantity>>)>>]
    ELSE [_items |-> self,
          out    |-> <<Line("update_item", <<"NO item in the collection">>)>>]

\* update_item: write the quantity through get_mut, or print that there is no item
update_item(self, name, quantity) ==
    IF get_mut(self, name) # {}
    THEN [_items |-> {IF e \in get_mut(self, name)
                      THEN Entry(e.key, [e.value EXCEPT !._quantity = quantity])
                      ELSE e : e \in self},
          out    |-> <<Line("update_item", <<"Updated item", name, quantity>>)>>]
    ELSE [_items |-> self,
          out    |-> <<Line("update_item", <<"NO item in the collection">>)>>]

\* list_item, without the branch on emptiness
list_item_silent(self) ==
    {[i \in 1..Len(s) |->
         Line("list_item", <<"Added item", s[i]._name, s[i]._quantity>>)]
     : s \in values(self)}

\* list_item, as a cursor that may stop before the last record
list_item_cursor(self) ==
    IF is_empty(self)
    THEN {<<Line("list_item", <<"There are no items in the list">>)>>}
    ELSE {[i \in 1..n |->
              Line("list_item", <<"Added item", s[i]._name, s[i]._quantity>>)]
          : s \in values(self), n \in 0..Cardinality(self)}

\* list_item: the possible outputs of one call (one per iteration order)
list_item(self) ==
    IF is_empty(self)
    THEN {<<Line("list_item", <<"There are no items in the list">>)>>}
    ELSE {[i \in 1..Len(s) |->
              Line("list_item", <<"Added item", s[i]._name, s[i]._quantity>>)]
          : s \in values(self)}

----------------------------------------------------------------------------
Init ==
    /\ _items = Collection_new
    /\ pc = "read"
    /\ take_input = <<>>
    /\ stdout = <<>>
    /\ calls = <<>>
    /\ panic = ""
    /\ before = {}
    /\ listed = {}
    /\ scenario = 0

Range(s) == {s[i] : i \in 1..Len(s)}

Call(fn, name, quantity) == [fn |-> fn, name |-> name, quantity |-> quantity]

\* the history variables follow every step
History ==
    /\ before' = _items
    /\ listed' = IF calls = <<Call("list_item", "", 0)>> THEN Range(stdout) ELSE {}

\* the calls of the scenario of the Collection's contract, in order
Scenario ==
    <<Call("add_item", "Apple", 5), Call("list_item", "", 0),
      Call("update_item", "Apple", 8), Call("list_item", "", 0),
      Call("update_item", "Banana", 1), Call("list_item", "", 0),
      Call("add_item", "Apple", 2), Call("list_item", "", 0)>>

\* the history of the scenario follows the calls of every step
Follow ==
    scenario' = IF calls' = <<>> THEN scenario
                ELSE IF /\ scenario >= 0
                        /\ scenario < Len(Scenario)
                        /\ calls' = <<Scenario[scenario + 1]>>
                     THEN scenario + 1
                     ELSE -1

(* A caller of the Collection invokes one method on it. *)
CallAdd(name, quantity) ==
    /\ pc = "read"
    /\ History
    /\ LET r == add_item(_items, name, quantity) IN
         /\ _items' = r._items
         /\ stdout' = r.out
    /\ calls' = <<Call("add_item", name, quantity)>>
    /\ UNCHANGED <<pc, take_input, panic>>
    /\ Follow

CallUpdate(name, quantity) ==
    /\ pc = "read"
    /\ History
    /\ LET r == update_item(_items, name, quantity) IN
         /\ _items' = r._items
         /\ stdout' = r.out
    /\ calls' = <<Call("update_item", name, quantity)>>
    /\ UNCHANGED <<pc, take_input, panic>>
    /\ Follow

CallList ==
    /\ pc = "read"
    /\ History
    /\ \E o \in list_item(_items) : stdout' = o
    /\ calls' = <<Call("list_item", "", 0)>>
    /\ UNCHANGED <<_items, pc, take_input, panic>>
    /\ Follow

NextCatalog ==
    \/ \E n \in Names, q \in Quantities : CallAdd(n, q)
    \/ \E n \in Names, q \in Quantities : CallUpdate(n, q)
    \/ CallList

SpecCatalog == Init /\ [][NextCatalog]_vars

----------------------------------------------------------------------------
(* The text read from standard input and its conversion to the selection. *)

Digits == {"0", "1", "2", "3", "4", "5", "6"}
Whitespace == {" ", "\n"}
Alphabet == Digits \cup {"+", "-", " ", "x"}

\* the lines a user can type, without the newline that ends them
Lines == UNION {[1..n -> Alphabet] : n \in 0..MaxLen}

to_digit == ("0" :> 0) @@ ("1" :> 1) @@ ("2" :> 2) @@ ("3" :> 3) @@
            ("4" :> 4) @@ ("5" :> 5) @@ ("6" :> 6)

Ok(v) == [ok |-> TRUE, val |-> v, err |-> "none"]
Err(e) == [ok |-> FALSE, val |-> 0, err |-> e]

\* Stdin::read_line appends the line with its newline; at end of input nothing
read_line(buf, line) == buf \o line \o <<"\n">>

RECURSIVE trim_start(_)
trim_start(s) ==
    IF s # <<>> /\ Head(s) \in Whitespace THEN trim_start(Tail(s)) ELSE s

RECURSIVE trim_end(_)
trim_end(s) ==
    IF s # <<>> /\ s[Len(s)] \in Whitespace
    THEN trim_end(SubSeq(s, 1, Len(s) - 1)) ELSE s

\* str::trim removes leading and trailing whitespace
trim(s) == trim_end(trim_start(s))

\* the digits of a u8, most significant first, with the overflow check
RECURSIVE parse_digits(_, _)
parse_digits(s, acc) ==
    IF s = <<>> THEN Ok(acc)
    ELSE IF Head(s) \notin DOMAIN to_digit THEN Err("InvalidDigit")
    ELSE LET r == acc * 10 + to_digit[Head(s)] IN
         IF r > U8Max THEN Err("PosOverflow") ELSE parse_digits(Tail(s), r)

\* parse, with a malformed line taken as the selection 0
parse_lenient(s) ==
    IF s = <<>> THEN Ok(0)
    ELSE IF s \in {<<"+">>, <<"-">>} THEN Ok(0)
    ELSE LET r == IF Head(s) = "+" THEN parse_digits(Tail(s), 0)
                  ELSE parse_digits(s, 0)
         IN IF r.ok THEN r ELSE Ok(0)

\* the digits of a u8, with arithmetic that wraps instead of the overflow check
RECURSIVE parse_digits_wrapping(_, _)
parse_digits_wrapping(s, acc) ==
    IF s = <<>> THEN Ok(acc)
    ELSE IF Head(s) \notin DOMAIN to_digit THEN Err("InvalidDigit")
    ELSE parse_digits_wrapping(Tail(s), (acc * 10 + to_digit[Head(s)]) % (U8Max + 1))

\* parse, with wrapping arithmetic
parse_wrapping(s) ==
    IF s = <<>> THEN Err("Empty")
    ELSE IF s \in {<<"+">>, <<"-">>} THEN Err("InvalidDigit")
    ELSE IF Head(s) = "+" THEN parse_digits_wrapping(Tail(s), 0)
    ELSE parse_digits_wrapping(s, 0)

\* str::parse::<u8>: an optional "+", then at least one digit
parse(s) ==
    IF s = <<>> THEN Err("Empty")
    ELSE IF s \in {<<"+">>, <<"-">>} THEN Err("InvalidDigit")
    ELSE IF Head(s) = "+" THEN parse_digits(Tail(s), 0)
    ELSE parse_digits(s, 0)

\* the selection main computes from the line it read
choice == parse(trim(take_input))

\* the match, with the selections numbered from 0
match_arm_from_zero(c) ==
    CASE c = 0 -> "add_item"
      [] c = 1 -> "update_item"
      [] c = 2 -> "list_item"
      [] c = 3 -> "break"
      [] OTHER -> "_"

\* the match, with the catch-all arm leaving the loop
match_arm_default_break(c) ==
    CASE c = 1 -> "add_item"
      [] c = 2 -> "update_item"
      [] c = 3 -> "list_item"
      [] OTHER -> "break"

\* the arm of the match that a selection takes
match_arm(c) ==
    CASE c = 1 -> "add_item"
      [] c = 2 -> "update_item"
      [] c = 3 -> "list_item"
      [] c = 4 -> "break"
      [] OTHER -> "_"

Menu == <<Line("main", <<"1. Add an item">>),
          Line("main", <<"2. Update an item">>),
          Line("main", <<"3. List an item">>),
          Line("main", <<"4. Exit">>),
          Line("main", <<"Enter your choice: ">>)>>

----------------------------------------------------------------------------
(* main: each iteration prints the menu, reads a line, and matches on it. *)

\* the menu is printed and a line arrives on standard input
ReadLine ==
    /\ pc = "read"
    /\ History
    /\ \E line \in Lines : take_input' = read_line(<<>>, line)
    /\ stdout' = Menu
    /\ calls' = <<>>
    /\ pc' = "match"
    /\ UNCHANGED <<_items, panic>>
    /\ Follow

\* the menu is printed and standard input is at its end: read_line reads nothing
ReadEof ==
    /\ pc = "read"
    /\ History
    /\ take_input' = <<>>
    /\ stdout' = Menu
    /\ calls' = <<>>
    /\ pc' = "match"
    /\ UNCHANGED <<_items, panic>>
    /\ Follow

\* the menu is printed and read_line fails: expect panics
ReadFail ==
    /\ pc = "read"
    /\ History
    /\ take_input' = <<>>
    /\ stdout' = Menu
    /\ calls' = <<>>
    /\ pc' = "panic"
    /\ panic' = "failed to read the line"
    /\ UNCHANGED _items
    /\ Follow

\* the line is no u8: expect panics
ParseFail ==
    /\ pc = "match"
    /\ History
    /\ ~choice.ok
    /\ pc' = "panic"
    /\ panic' = "failed to convert to integer"
    /\ take_input' = <<>>
    /\ stdout' = <<>>
    /\ calls' = <<>>
    /\ UNCHANGED _items
    /\ Follow

MatchAdd ==
    /\ pc = "match"
    /\ History
    /\ choice.ok /\ match_arm(choice.val) = "add_item"
    /\ LET r == add_item(_items, "Apple", 5) IN
         /\ _items' = r._items
         /\ stdout' = r.out
    /\ calls' = <<Call("add_item", "Apple", 5)>>
    /\ take_input' = <<>>
    /\ pc' = "read"
    /\ UNCHANGED panic
    /\ Follow

MatchUpdate ==
    /\ pc = "match"
    /\ History
    /\ choice.ok /\ match_arm(choice.val) = "update_item"
    /\ LET r == update_item(_items, "Apple", 8) IN
         /\ _items' = r._items
         /\ stdout' = r.out
    /\ calls' = <<Call("update_item", "Apple", 8)>>
    /\ take_input' = <<>>
    /\ pc' = "read"
    /\ UNCHANGED panic
    /\ Follow

MatchList ==
    /\ pc = "match"
    /\ History
    /\ choice.ok /\ match_arm(choice.val) = "list_item"
    /\ \E o \in list_item(_items) : stdout' = o
    /\ calls' = <<Call("list_item", "", 0)>>
    /\ take_input' = <<>>
    /\ pc' = "read"
    /\ UNCHANGED <<_items, panic>>
    /\ Follow

MatchBreak ==
    /\ pc = "match"
    /\ History
    /\ choice.ok /\ match_arm(choice.val) = "break"
    /\ stdout' = <<>>
    /\ calls' = <<>>
    /\ take_input' = <<>>
    /\ pc' = "exit"
    /\ UNCHANGED <<_items, panic>>
    /\ Follow

MatchOther ==
    /\ pc = "match"
    /\ History
    /\ choice.ok /\ match_arm(choice.val) = "_"
    /\ stdout' = <<Line("main", <<"failed to recognize the choice">>)>>
    /\ calls' = <<>>
    /\ take_input' = <<>>
    /\ pc' = "read"
    /\ UNCHANGED <<_items, panic>>
    /\ Follow

Next ==
    \/ ReadLine
    \/ ReadEof
    \/ ReadFail
    \/ ParseFail
    \/ MatchAdd
    \/ MatchUpdate
    \/ MatchList
    \/ MatchBreak
    \/ MatchOther

Spec == Init /\ [][Next]_vars

\* the state of the command loop
LoopState ==
    CASE pc = "exit" -> "Terminated"
      [] pc = "panic" -> "Aborted"
      [] OTHER -> "Running"

----------------------------------------------------------------------------
(* Properties of the Collection, checked under SpecCatalog. *)

AddCall(n, q) == <<Call("add_item", n, q)>>
UpdateCall(n, q) == <<Call("update_item", n, q)>>
ListCall == <<Call("list_item", "", 0)>>

NotFoundOut == <<Line("update_item", <<"NO item in the collection">>)>>
UpdatedOut(n, q) == <<Line("update_item", <<"Updated item", n, q>>)>>
NoItemsLine == Line("list_item", <<"There are no items in the list">>)
RecordLine(n, q) == Line("list_item", <<"Added item", n, q>>)

\* the entries stored under the key n
Under(m, n) == {e \in m : e.key = n}

\* C1: after add_item(name, q) the catalog holds exactly one record for name and
\* its quantity is q, whether name was absent or present with another quantity.
C1_UpsertReplaces ==
    \A n \in Names, q \in Quantities :
        calls = AddCall(n, q) =>
            /\ Cardinality(Under(_items, n)) = 1
            /\ \A e \in Under(_items, n) : e.value._quantity = q

\* add_item wrote over a record of the same name that held another, non-zero quantity
C1_Witness ==
    /\ calls = AddCall("Apple", 2)
    /\ Entry("Apple", Item("Apple", 8)) \in before
    /\ Entry("Apple", Item("Apple", 2)) \in _items

\* C2: update_item on an absent name leaves the whole mapping unchanged and reports
\* not-found, and not-found is reported only when the name is absent.
C2_UpdateNeverInserts ==
    \A n \in Names, q \in Quantities :
        calls = UpdateCall(n, q) =>
            /\ n \notin Keys(before) =>
                  /\ _items = before
                  /\ Keys(_items) = Keys(before)
                  /\ Cardinality(_items) = Cardinality(before)
                  /\ stdout = NotFoundOut
            /\ stdout = NotFoundOut => n \notin Keys(before)

\* update_item was called for an absent name on a catalog that holds other records
C2_Witness ==
    /\ calls = UpdateCall("Banana", 1)
    /\ "Banana" \notin Keys(before)
    /\ before = {Entry("Apple", Item("Apple", 8))}
    /\ stdout = NotFoundOut

\* C3: update_item on a present name reports success, sets that record's quantity,
\* keeps its name, the key set and the size, and every other name's record.
C3_UpdateOnlyThatRecord ==
    \A n \in Names, q \in Quantities :
        (calls = UpdateCall(n, q) /\ n \in Keys(before)) =>
            /\ stdout = UpdatedOut(n, q)
            /\ \A e \in Under(_items, n) : e.value._quantity = q
            /\ {e.value._name : e \in Under(_items, n)}
                  = {e.value._name : e \in Under(before, n)}
            /\ Keys(_items) = Keys(before)
            /\ Cardinality(_items) = Cardinality(before)
            /\ \A m \in Names \ {n} : Under(_items, m) = Under(before, m)

\* update_item changed the quantity of one of three records
C3_Witness ==
    /\ calls = UpdateCall("Apple", 8)
    /\ Entry("Apple", Item("Apple", 5)) \in before
    /\ Entry("Apple", Item("Apple", 8)) \in _items
    /\ Cardinality(_items) = 3

\* what a listing of the catalog m must be
Listing(m, out) ==
    /\ NoItemsLine \in Range(out) <=> m = {}
    /\ m # {} =>
          /\ Len(out) = Cardinality(Keys(m))
          /\ \A k \in Keys(m) : \A e \in Under(m, k) :
                Cardinality({i \in 1..Len(out) :
                                out[i] = RecordLine(k, e.value._quantity)}) = 1
          /\ \A i \in 1..Len(out) : \E e \in m :
                out[i] = RecordLine(e.key, e.value._quantity)

\* C4: list_item emits the 'no items' outcome iff the catalog is empty, otherwise
\* exactly one record per key with that entry's name and quantity; after a single
\* add_item(n, q) on the empty catalog it yields exactly the record (n, q).
C4_ListAll ==
    [][calls' = ListCall =>
          /\ Listing(_items', stdout')
          /\ \A n \in Names, q \in Quantities :
                (before = {} /\ calls = AddCall(n, q)) =>
                    stdout' = <<RecordLine(n, q)>>]_vars

\* list_item listed a catalog of two records
C4_Witness ==
    /\ calls = ListCall
    /\ Cardinality(_items) = 2
    /\ Len(stdout) = 2

\* C5: list_item leaves the catalog unchanged, and two consecutive list_item calls
\* yield the same set of records.
C5_ListIdempotent ==
    (calls = ListCall => _items = before)
    /\ (calls = ListCall /\ listed # {} => Range(stdout) = listed)

\* list_item was called twice in a row on a catalog of two records
C5_Witness ==
    /\ calls = ListCall
    /\ listed = Range(stdout)
    /\ Cardinality(listed) = 2
    /\ Cardinality(_items) = 2

\* C6: the key set never shrinks and the size never decreases.
C6_NoRemoval ==
    [][/\ Keys(_items) \subseteq Keys(_items')
       /\ Cardinality(_items') >= Cardinality(_items)]_vars

\* a record was updated to the quantity zero and is still there
C6_Witness ==
    /\ calls = UpdateCall("Apple", 0)
    /\ "Apple" \in Keys(before)
    /\ "Apple" \in Keys(_items)

\* C7: every record stored in the catalog has a name equal to its key.
C7_NameIsKey ==
    \A e \in _items : e.value._name = e.key

\* records written by add_item and by update_item are stored
C7_Witness ==
    /\ calls = UpdateCall("Banana", 1)
    /\ "Banana" \in Keys(before)
    /\ Cardinality(_items) = 3

----------------------------------------------------------------------------
(* Properties of the command loop, checked under Spec. *)

UnrecognizedOut == <<Line("main", <<"failed to recognize the choice">>)>>

\* the selection of the line read is the u8 c
Selected(c) == pc = "match" /\ choice.ok /\ choice.val = c

\* C8: the loop starts Running; selections 1, 2, 3 each make exactly the one
\* corresponding Catalog call and stay Running; selection 4 moves to Terminated
\* without a Catalog call; nothing happens after Terminated, which is reached only
\* by selection 4.
C8_LoopTransitions ==
    /\ LoopState = "Running"
    /\ [][/\ Selected(1) =>
                calls' = AddCall("Apple", 5) /\ LoopState' = "Running"
          /\ Selected(2) =>
                calls' = UpdateCall("Apple", 8) /\ LoopState' = "Running"
          /\ Selected(3) =>
                calls' = ListCall /\ LoopState' = "Running"
          /\ Selected(4) =>
                calls' = <<>> /\ _items' = _items /\ LoopState' = "Terminated"
          /\ LoopState # "Terminated"
          /\ LoopState' = "Terminated" => Selected(4)]_vars

\* the loop was left by the exit selection after the catalog was filled
C8_Witness ==
    /\ LoopState = "Terminated"
    /\ _items = {Entry("Apple", Item("Apple", 8))}

\* C9: an unrecognized selection leaves the loop Running, prints the 'choice not
\* recognized' message and leaves the catalog unchanged.
C9_Unrecognized ==
    [][(pc = "match" /\ choice.ok /\ choice.val \notin {1, 2, 3, 4}) =>
          /\ LoopState' = "Running"
          /\ stdout' = UnrecognizedOut
          /\ calls' = <<>>
          /\ _items' = _items]_vars

\* an unrecognized selection was answered while the catalog held a record
C9_Witness ==
    /\ stdout = UnrecognizedOut
    /\ pc = "read"
    /\ _items = before
    /\ _items # {}

\* the text is a decimal integer: an optional sign, then one or more digits
IsIntegerText(s) ==
    LET body == IF s # <<>> /\ Head(s) \in {"+", "-"} THEN Tail(s) ELSE s IN
    /\ body # <<>>
    /\ \A i \in 1..Len(body) : body[i] \in Digits

\* C10: a line that is no integer aborts the process at once, with an outcome other
\* than the normal exit, without a Catalog call, and no later selection is read.
C10_MalformedIsFatal ==
    [][/\ (pc = "match" /\ ~IsIntegerText(trim(take_input))) =>
             /\ LoopState' = "Aborted"
             /\ panic' = "failed to convert to integer"
             /\ calls' = <<>>
             /\ _items' = _items
       /\ LoopState # "Aborted"]_vars

\* the process aborted on a malformed line while the catalog held a record
C10_Witness ==
    /\ LoopState = "Aborted"
    /\ panic = "failed to convert to integer"
    /\ _items # {}

----------------------------------------------------------------------------
(* The scenario of the contract, checked under SpecCatalog. *)

\* C11: from the empty catalog, after add_item(Apple, 5) the listing is exactly
\* {Apple: 5}; after update_item(Apple, 8) it is exactly {Apple: 8};
\* update_item(Banana, 1) reports not-found and the listing is still {Apple: 8};
\* after add_item(Apple, 2) the listing is exactly {Apple: 2}.
C11_Scenario ==
    /\ scenario = 2 => stdout = <<RecordLine("Apple", 5)>>
    /\ scenario = 4 => stdout = <<RecordLine("Apple", 8)>>
    /\ scenario = 5 => stdout = NotFoundOut
    /\ scenario = 6 => stdout = <<RecordLine("Apple", 8)>>
    /\ scenario = 8 => stdout = <<RecordLine("Apple", 2)>>

\* the whole scenario was run, and its last listing printed
C11_Witness ==
    /\ scenario = Len(Scenario)
    /\ calls = ListCall
    /\ stdout = <<RecordLine("Apple", 2)>>

----------------------------------------------------------------------------
(* Who writes to standard output, checked under Spec. *)

----------------------------------------------------------------------------
(* The frame of add_item, checked under SpecCatalog. *)

\* C13: add_item(name, q) leaves the record of every other name unchanged, and the
\* size grows by exactly 1 when name was absent and by 0 when it was present.
C13_UpsertFrame ==
    \A n \in Names, q \in Quantities :
        calls = AddCall(n, q) =>
            /\ \A m \in Names \ {n} : Under(_items, m) = Under(before, m)
            /\ n \notin Keys(before) => Cardinality(_items) = Cardinality(before) + 1
            /\ n \in Keys(before) => Cardinality(_items) = Cardinality(before)

\* add_item added a third name to a catalog of two records
C13_Witness ==
    /\ calls = AddCall("Cherry", 1)
    /\ Keys(before) = {"Apple", "Banana"}
    /\ Keys(_items) = {"Apple", "Banana", "Cherry"}

----------------------------------------------------------------------------
(* The catalogs main can build, checked under Spec. *)

Apple5 == {Entry("Apple", Item("Apple", 5))}
Apple8 == {Entry("Apple", Item("Apple", 8))}

\* C14: under main every catalog is empty, {Apple: 5} or {Apple: 8}; the size never
\* exceeds 1; the quantity 8 appears only by an update of a record that an add
\* stored; an update before any add reports not-found and leaves the catalog
\* empty; an add after an update resets the quantity to 5.
C14_MainCatalogs ==
    /\ _items \in {{}, Apple5, Apple8}
    /\ Cardinality(_items) <= 1
    /\ (_items = Apple8 /\ before # Apple8) =>
          before = Apple5 /\ calls = UpdateCall("Apple", 8)
    /\ (_items = Apple5 /\ before # Apple5) => calls = AddCall("Apple", 5)
    /\ (calls = UpdateCall("Apple", 8) /\ before = {}) =>
          stdout = NotFoundOut /\ _items = {}
    /\ (calls = AddCall("Apple", 5) /\ before = Apple8) => _items = Apple5

\* the add selection was taken after an update and reset the quantity
C14_Witness ==
    /\ calls = AddCall("Apple", 5)
    /\ before = Apple8
    /\ _items = Apple5

----------------------------------------------------------------------------
(* The width of the selection, checked under Spec. *)

\* the number that a sequence of decimal digits writes
RECURSIVE DecValue(_)
DecValue(s) ==
    IF s = <<>> THEN 0
    ELSE DecValue(SubSeq(s, 1, Len(s) - 1)) * 10 + to_digit[s[Len(s)]]

\* the integer that an integer text writes
IntValue(s) ==
    IF Head(s) = "-" THEN 0 - DecValue(Tail(s))
    ELSE IF Head(s) = "+" THEN DecValue(Tail(s))
    ELSE DecValue(s)

\* the process is aborted by the panic of the failed conversion
ParsePanic == pc = "panic" /\ panic = "failed to convert to integer"

\* C15: the selection is a u8: the 'unrecognized selection' branch is taken exactly
\* for the integers 0 and 5..255; an integer outside 0..255, an empty line and the
\* end of input abort the process through the failed conversion.
C15_SelectionIsU8 ==
    [][pc = "match" =>
          LET t == trim(take_input) IN
          /\ (pc' = "read" /\ stdout' = UnrecognizedOut)
                <=> /\ IsIntegerText(t)
                    /\ Head(t) # "-"
                    /\ IntValue(t) \in {0} \cup 5..U8Max
          /\ (IsIntegerText(t) /\ IntValue(t) \notin 0..U8Max) => ParsePanic'
          /\ take_input \in {<<>>, <<"\n">>} => ParsePanic']_vars

\* the line 256 was read and its conversion overflows the u8
C15_Witness ==
    /\ pc = "match"
    /\ take_input = <<"2", "5", "6", "\n">>
    /\ ~choice.ok
    /\ choice.err = "PosOverflow"

====
